---- MODULE Spec2Model ----
(***************************************************************************)
(* Model of the secret scanner: the configuration resolver                 *)
(* (config/config.go: Translate, extendDefault, extendPath, extend), the   *)
(* leak detector (checkRules and its helpers), the working-tree scanner    *)
(* (UnstagedScanner.Scan) and the worker-pool sizing (howManyThreads).     *)
(*                                                                         *)
(* Strings that the program inspects character by character (lines,        *)
(* paths, regex matches) are sequences of one-character strings.  A        *)
(* compiled regular expression is a sequence of atoms, each a fixed run    *)
(* of literal characters and "." wildcards that is or is not a capture     *)
(* group; the empty sequence is the regex compiled from "".                *)
(***************************************************************************)
EXTENDS Integers, Sequences, FiniteSets, TLC

VARIABLES
    extendDepth,   \* config.go: package variable extendDepth
    stack,         \* call stack of Translate activations, innermost last
    results,       \* what the top-level Translate calls returned, in order
    status,        \* "running" | "fatal" (log.Fatal) | "panic" (MustCompile)
    detArgs,       \* arguments of checkRules: [cfg, filePath, content]
    detRuns,       \* the []Leak returned by each call of checkRules on detArgs
    repo,          \* the repository the working-tree scanner looks at
    usPc,          \* UnstagedScanner.Scan: position
    usTodo,        \* status entries the range loop has not visited yet
    usLeaks,       \* UnstagedScanner.leaks
    usErr,         \* what Scan returned: "none" while running, "nil", or an error
    threads,       \* howManyThreads: argument
    maxProcs,      \* runtime.GOMAXPROCS(0)
    threadsOut     \* howManyThreads: <<>> before the call, <<result>> after

vars == <<extendDepth, stack, results, status, detArgs, detRuns, repo, usPc,
          usTodo, usLeaks, usErr, threads, maxProcs, threadsOut>>

cfgVars == <<extendDepth, stack, results, status>>
detVars == <<detArgs, detRuns>>
usVars == <<repo, usPc, usTodo, usLeaks, usErr>>
thrVars == <<threads, maxProcs, threadsOut>>

(***************************************************************************)
(* Bounds                                                                  *)
(***************************************************************************)
MaxCalls == 2        \* top-level Translate calls made by one process
MaxRuns == 2         \* calls of checkRules on the same arguments
MaxContentLen == 5   \* characters of scanned content
MaxThreads == 9      \* largest requested thread count
MaxProcs == 6        \* largest GOMAXPROCS

(***************************************************************************)
(* Generic helpers                                                         *)
(***************************************************************************)
EmptyMap == [x \in {} |-> x]

MapPut(m, k, v) == [x \in (DOMAIN m) \cup {k} |-> IF x = k THEN v ELSE m[x]]

Perms(S) == {p \in [1..Cardinality(S) -> S] : \A i, j \in DOMAIN p : p[i] = p[j] => i = j}

Range(s) == {s[i] : i \in DOMAIN s}

(***************************************************************************)
(* Regular expressions                                                     *)
(***************************************************************************)
Cap(t) == [cap |-> TRUE, txt |-> t]
Lit(t) == [cap |-> FALSE, txt |-> t]

\* a regex source that does not compile
BadPattern == <<[cap |-> FALSE, txt |-> <<"(">>]>>

RECURSIVE NumSubexp(_)
NumSubexp(re) ==
    IF re = <<>> THEN 0
    ELSE (IF Head(re).cap THEN 1 ELSE 0) + NumSubexp(Tail(re))

(***************************************************************************)
(* Configuration resolver (config/config.go)                               *)
(***************************************************************************)
maxExtendDepth == 2

\* strings.ToLower on the keywords the documents use
ToLower(k) ==
    CASE k = "KEY" -> "key"
      [] k = "Token" -> "token"
      [] OTHER -> k

EmptyAllowlist == [Regexes |-> <<>>, Paths |-> <<>>, Commits |-> <<>>, StopWords |-> <<>>]

NoExtends == [Path |-> "", URL |-> "", UseDefault |-> FALSE]

\* one entry of ViperConfig.Rules
VRule(id, desc, regex, secretGroup, keywords) ==
    [ID |-> id, Description |-> desc, Entropy |-> 0, SecretGroup |-> secretGroup,
     Regex |-> regex, Keywords |-> keywords, Path |-> <<>>, Tags |-> <<>>,
     Allowlist |-> EmptyAllowlist]

VConfig(desc, rules, ext, commits) ==
    [Description |-> desc, Extends |-> ext, Rules |-> rules,
     Allowlist |-> [EmptyAllowlist EXCEPT !.Commits = commits]]

ReKey == <<Lit(<<"a">>), Cap(<<".">>)>>      \* a(.)   one capture group
ReTwo == <<Cap(<<"a">>), Cap(<<"b">>)>>      \* (a)(b) two capture groups
RePlain == <<Lit(<<"a", "b">>)>>             \* ab     no capture group

\* the embedded default configuration (gitleaks.toml)
DefaultConfig ==
    VConfig("default",
            <<VRule("A", "A of default", RePlain, 0, <<"key">>),
              VRule("D", "D of default", ReKey, 1, <<"token">>)>>,
            NoExtends, <<"cd">>)

\* the configuration files on disk; "nofile.toml" is not among them
FileNames == {"self.toml", "x.toml", "y.toml", "deep.toml", "chain.toml", "mid.toml",
              "leaf.toml", "bad.toml", "extbad.toml", "dup.toml", "usedef.toml",
              "missing.toml", "malformed.toml", "nogroup.toml"}

FileSystem(name) ==
    CASE name = "self.toml" ->
           VConfig("self", <<VRule("A", "A of self", ReKey, 1, <<"KEY">>)>>,
                   [NoExtends EXCEPT !.Path = "self.toml"], <<"cs">>)
      [] name = "x.toml" ->
           VConfig("x", <<VRule("A", "A of x", ReKey, 0, <<"key">>),
                          VRule("X", "X of x", RePlain, 0, <<>>)>>,
                   [NoExtends EXCEPT !.Path = "y.toml"], <<"cx">>)
      [] name = "y.toml" ->
           VConfig("y", <<VRule("A", "A of y", ReTwo, 2, <<"Token">>),
                          VRule("Y", "Y of y", RePlain, 0, <<"KEY">>)>>,
                   [NoExtends EXCEPT !.Path = "x.toml"], <<"cy">>)
      [] name = "deep.toml" ->
           VConfig("deep", <<VRule("P", "P of deep", RePlain, 0, <<>>)>>,
                   [NoExtends EXCEPT !.Path = "chain.toml"], <<>>)
      [] name = "chain.toml" ->
           VConfig("chain", <<VRule("A", "A of chain", ReKey, 1, <<"key">>)>>,
                   [NoExtends EXCEPT !.Path = "mid.toml"], <<"cc">>)
      [] name = "mid.toml" ->
           VConfig("mid", <<VRule("A", "A of mid", ReTwo, 1, <<"Token">>),
                            VRule("M", "M of mid", ReTwo, 2, <<>>)>>,
                   [NoExtends EXCEPT !.Path = "leaf.toml"], <<"cm">>)
      [] name = "leaf.toml" ->
           VConfig("leaf", <<VRule("L", "L of leaf", ReKey, 1, <<"KEY">>)>>,
                   NoExtends, <<"cl">>)
      [] name = "bad.toml" ->
           VConfig("bad", <<VRule("G", "G of bad", RePlain, 0, <<>>),
                            VRule("B", "B of bad", ReKey, 2, <<>>)>>,
                   NoExtends, <<>>)
      [] name = "extbad.toml" ->
           VConfig("extbad", <<VRule("E", "E of extbad", RePlain, 0, <<>>)>>,
                   [NoExtends EXCEPT !.Path = "bad.toml"], <<>>)
      [] name = "dup.toml" ->
           VConfig("dup", <<VRule("A", "A first", RePlain, 0, <<"key">>),
                            VRule("A", "A second", ReKey, 1, <<"token">>)>>,
                   NoExtends, <<>>)
      [] name = "usedef.toml" ->
           VConfig("usedef", <<VRule("A", "A of usedef", ReKey, 1, <<>>)>>,
                   [NoExtends EXCEPT !.Path = "leaf.toml", !.UseDefault = TRUE], <<"cu">>)
      [] name = "missing.toml" ->
           VConfig("missing", <<VRule("A", "A of missing", ReKey, 1, <<>>)>>,
                   [NoExtends EXCEPT !.Path = "nofile.toml"], <<>>)
      [] name = "malformed.toml" ->
           VConfig("malformed", <<VRule("Z", "Z of malformed", BadPattern, 0, <<>>)>>,
                   NoExtends, <<>>)
      [] name = "nogroup.toml" ->
           \* a path-only rule: no content regex, secret group set all the same
           VConfig("nogroup", <<[VRule("N", "N of nogroup", <<>>, 1, <<>>)
                                   EXCEPT !.Path = RePlain]>>,
                   NoExtends, <<>>)

\* the raw documents a caller may hand to Translate
Documents == {FileSystem(n) : n \in FileNames} \cup {DefaultConfig}

\* Config{}: what Translate returns next to an error
NoConfig ==
    [Extends |-> NoExtends, Path |-> "", Description |-> "", Rules |-> EmptyMap,
     Allowlist |-> EmptyAllowlist, Keywords |-> <<>>]

\* regexp.MustCompile panics on these
Compiles(re) == re # BadPattern

AllCompile(res) == \A i \in DOMAIN res : Compiles(res[i])

LowerAll(ks) == [i \in DOMAIN ks |-> ToLower(ks[i])]

\* config.Rule as Translate builds it from one entry r of ViperConfig.Rules
TranslateRule(r) ==
    [Description |-> r.Description, RuleID |-> r.ID, Regex |-> r.Regex, Path |-> r.Path,
     SecretGroup |-> r.SecretGroup, Entropy |-> r.Entropy, Tags |-> r.Tags,
     Keywords |-> r.Keywords,
     Allowlist |-> [Regexes |-> r.Allowlist.Regexes, Paths |-> r.Allowlist.Paths,
                    Commits |-> r.Allowlist.Commits, StopWords |-> r.Allowlist.StopWords]]

SecretGroupUnchecked(rule) == FALSE

\* the secret-group validation of Translate; Regex is nil when its source is ""
SecretGroupInvalid(rule) ==
    rule.Regex # <<>> /\ rule.SecretGroup > NumSubexp(rule.Regex)

\* the loop of Translate over vc.Rules: "panic" when a pattern does not compile,
\* "secretgroup" on the first rule that fails validation, else the rule map
\* (a later entry with the same ID replaces an earlier one) and the keywords
RECURSIVE TranslateRules(_, _, _)
TranslateRules(rules, rulesMap, keywords) ==
    IF rules = <<>> THEN [err |-> "nil", Rules |-> rulesMap, Keywords |-> keywords]
    ELSE LET r == Head(rules)
             rule == TranslateRule(r)
         IN  IF ~(AllCompile(r.Allowlist.Regexes) /\ AllCompile(r.Allowlist.Paths)
                  /\ Compiles(r.Regex) /\ Compiles(r.Path))
             THEN [err |-> "panic", Rules |-> EmptyMap, Keywords |-> <<>>]
             ELSE IF SecretGroupInvalid(rule)
             THEN [err |-> "secretgroup", Rules |-> EmptyMap, Keywords |-> <<>>]
             ELSE TranslateRules(Tail(rules), MapPut(rulesMap, rule.RuleID, rule),
                                 keywords \o LowerAll(r.Keywords))

MayExtendAlways(depth) == TRUE

\* the guard of Translate around the extension
MayExtend(depth) == maxExtendDepth # depth

\* Translate up to the extension: the Config c built from vc, and where the
\* activation goes next at extension depth `depth`
TranslateBuild(vc, depth) ==
    LET t == TranslateRules(vc.Rules, EmptyMap, <<>>)
        ok == t.err = "nil" /\ AllCompile(vc.Allowlist.Regexes) /\ AllCompile(vc.Allowlist.Paths)
        c == [Extends |-> vc.Extends, Path |-> "", Description |-> vc.Description,
              Rules |-> t.Rules,
              Allowlist |-> [Regexes |-> vc.Allowlist.Regexes, Paths |-> vc.Allowlist.Paths,
                             Commits |-> vc.Allowlist.Commits,
                             StopWords |-> vc.Allowlist.StopWords],
              Keywords |-> t.Keywords]
    IN  [err |-> IF t.err = "nil" /\ ~ok THEN "panic" ELSE t.err,
         frame |-> [vc |-> vc,
                    c |-> IF ok THEN c ELSE NoConfig,
                    pc |-> IF ok /\ MayExtend(depth) /\ (vc.Extends.UseDefault \/ vc.Extends.Path # "")
                           THEN "extend" ELSE "return"]]

RECURSIVE extendRules(_, _, _)
extendRulesOverwrite(c, ext, order) ==
    IF order = <<>> THEN c
    ELSE LET rule == ext.Rules[Head(order)]
         IN  extendRules([c EXCEPT !.Rules = MapPut(c.Rules, Head(order), rule),
                                   !.Keywords = c.Keywords \o rule.Keywords],
                         ext, Tail(order))

\* the rule loop of extend; `order` is the order in which the range over the
\* map extensionConfig.Rules yields the rule IDs
extendRules(c, ext, order) ==
    IF order = <<>> THEN c
    ELSE LET ruleID == Head(order)
             rule == ext.Rules[ruleID]
         IN  IF ruleID \notin DOMAIN c.Rules
             THEN extendRules([c EXCEPT !.Rules = MapPut(c.Rules, ruleID, rule),
                                        !.Keywords = c.Keywords \o rule.Keywords],
                              ext, Tail(order))
             ELSE extendRules(c, ext, Tail(order))

extend(c, extensionConfig, order) ==
    LET m == extendRules(c, extensionConfig, order)
    IN  [m EXCEPT !.Allowlist.Commits = m.Allowlist.Commits \o extensionConfig.Allowlist.Commits,
                  !.Allowlist.Paths = m.Allowlist.Paths \o extensionConfig.Allowlist.Paths,
                  !.Allowlist.Regexes = m.Allowlist.Regexes \o extensionConfig.Allowlist.Regexes]

Top == stack[Len(stack)]

\* a caller hands the raw document vc to Translate
Translate(vc) ==
    /\ status = "running"
    /\ stack = <<>>
    /\ Len(results) < MaxCalls
    /\ LET b == TranslateBuild(vc, extendDepth)
       IN  CASE b.err = "panic" ->
                  /\ status' = "panic"
                  /\ UNCHANGED <<stack, results>>
             [] b.err = "secretgroup" ->
                  /\ results' = Append(results, [vc |-> vc, err |-> b.err, c |-> NoConfig])
                  /\ UNCHANGED <<stack, status>>
             [] OTHER ->
                  /\ stack' = <<b.frame>>
                  /\ UNCHANGED <<results, status>>
    /\ UNCHANGED <<extendDepth, detVars, usVars, thrVars>>

\* extendDefault / extendPath up to the return of the nested Translate call on
\* the document vc: any error of that call is log.Fatal
NestedTranslate(vc) ==
    LET b == TranslateBuild(vc, extendDepth + 1)
    IN  /\ extendDepth' = extendDepth + 1
        /\ CASE b.err = "panic" ->
                  /\ status' = "panic"
                  /\ UNCHANGED stack
             [] b.err = "secretgroup" ->
                  /\ status' = "fatal"
                  /\ UNCHANGED stack
             [] OTHER ->
                  /\ stack' = Append([stack EXCEPT ![Len(stack)].pc = "wait"], b.frame)
                  /\ UNCHANGED status
        /\ UNCHANGED results

extendDefault ==
    /\ status = "running"
    /\ stack # <<>>
    /\ Top.pc = "extend"
    /\ Top.c.Extends.UseDefault
    /\ NestedTranslate(DefaultConfig)
    /\ UNCHANGED <<detVars, usVars, thrVars>>

extendPath ==
    /\ status = "running"
    /\ stack # <<>>
    /\ Top.pc = "extend"
    /\ ~Top.c.Extends.UseDefault
    /\ Top.c.Extends.Path # ""
    /\ IF Top.c.Extends.Path \in FileNames
       THEN NestedTranslate(FileSystem(Top.c.Extends.Path))
       ELSE \* viper.ReadInConfig fails
            /\ extendDepth' = extendDepth + 1
            /\ status' = "fatal"
            /\ UNCHANGED <<stack, results>>
    /\ UNCHANGED <<detVars, usVars, thrVars>>

\* the innermost Translate returns c: to the caller, or to the extendDefault /
\* extendPath that called it, which merges it with extend and returns in turn
TranslateReturn ==
    /\ status = "running"
    /\ stack # <<>>
    /\ Top.pc = "return"
    /\ IF Len(stack) = 1
       THEN /\ results' = Append(results, [vc |-> Top.vc, err |-> "nil", c |-> Top.c])
            /\ stack' = <<>>
       ELSE /\ \E order \in Perms(DOMAIN Top.c.Rules) :
                 stack' = [SubSeq(stack, 1, Len(stack) - 1) EXCEPT
                              ![Len(stack) - 1].c = extend(stack[Len(stack) - 1].c, Top.c, order),
                              ![Len(stack) - 1].pc = "return"]
            /\ UNCHANGED results
    /\ UNCHANGED <<extendDepth, status, detVars, usVars, thrVars>>

(***************************************************************************)
(* Leak detector (checkRules and its helpers)                              *)
(***************************************************************************)
defaultLineNumber == -1

\* the pattern of a compiled regex, capture structure dropped
RECURSIVE Flatten(_)
Flatten(re) == IF re = <<>> THEN <<>> ELSE Head(re).txt \o Flatten(Tail(re))

\* whether the pattern matches s at position i ("." matches all but newline)
MatchAt(pat, s, i) ==
    /\ i + Len(pat) - 1 <= Len(s)
    /\ \A k \in DOMAIN pat :
         \/ pat[k] = s[i + k - 1]
         \/ pat[k] = "." /\ s[i + k - 1] # "\n"

\* position of the leftmost match of re in s, 0 when there is none
MatchPos(re, s) ==
    LET pat == Flatten(re)
        hits == {i \in 1..(Len(s) + 1) : MatchAt(pat, s, i)}
    IN  IF hits = {} THEN 0 ELSE CHOOSE i \in hits : \A j \in hits : i <= j

\* regexp.Regexp.FindString: the text of the leftmost match, "" when none
FindString(re, s) ==
    LET i == MatchPos(re, s)
    IN  IF i = 0 THEN <<>> ELSE SubSeq(s, i, i + Len(Flatten(re)) - 1)

\* the texts of the capture groups of re, matched at the start of m
RECURSIVE GroupTexts(_, _)
GroupTexts(re, m) ==
    IF re = <<>> THEN <<>>
    ELSE LET n == Len(Head(re).txt)
             rest == GroupTexts(Tail(re), SubSeq(m, n + 1, Len(m)))
         IN  IF Head(re).cap THEN <<SubSeq(m, 1, n)>> \o rest ELSE rest

\* regexp.Regexp.FindStringSubmatch: the leftmost match and its capture
\* groups, nil (the empty slice) when there is no match
FindStringSubmatch(re, s) ==
    LET i == MatchPos(re, s)
        m == FindString(re, s)
    IN  IF i = 0 THEN <<>> ELSE <<m>> \o GroupTexts(re, m)

\* -freq * log2(freq) for freq = count / length, in thousandths of a bit
EntropyTerm(count, length) ==
    CASE count = length -> 0
      [] 2 * count = length -> 500
      [] 3 * count = length -> 528
      [] 3 * count = 2 * length -> 390
      [] 4 * count = length -> 500
      [] 4 * count = 3 * length -> 311

RECURSIVE SumTerms(_, _, _)
SumTerms(chars, data, acc) ==
    IF chars = {} THEN acc
    ELSE LET c == CHOOSE x \in chars : TRUE
             count == Cardinality({i \in DOMAIN data : data[i] = c})
         IN  SumTerms(chars \ {c}, data, acc + EntropyTerm(count, Len(data)))

\* shannonEntropy, in thousandths of a bit
shannonEntropy(data) == IF data = <<>> THEN 0 ELSE SumTerms(Range(data), data, 0)

trippedEntropyNoMax(groups, rule) ==
    \E k \in DOMAIN rule.Entropies :
        LET e == rule.Entropies[k]
        IN  Len(groups) > e.Group /\ shannonEntropy(groups[e.Group + 1]) >= e.Min

\* trippedEntropy; groups[0] of the code is groups[1] here
trippedEntropy(groups, rule) ==
    \E k \in DOMAIN rule.Entropies :
        LET e == rule.Entropies[k]
        IN  /\ Len(groups) > e.Group
            /\ shannonEntropy(groups[e.Group + 1]) >= e.Min
            /\ shannonEntropy(groups[e.Group + 1]) <= e.Max

isAllowListedNever(target, allowList) == FALSE

isAllowListed(target, allowList) ==
    \E k \in DOMAIN allowList : FindString(allowList[k], target) # <<>>

\* regexMatched on a string; a nil regex is the empty one here and matches nothing
regexMatched(f, re) == re # <<>> /\ FindString(re, f) # <<>>

ruleContainRegex(rule) == rule.Regex # <<>>

ruleContainFileRegex(rule) == rule.File # <<>>

ruleContainPathRegex(rule) == rule.Path # <<>>

skipCheck(cfg, filename, path) ==
    \/ \E k \in DOMAIN cfg.Allowlist.Files : regexMatched(filename, cfg.Allowlist.Files[k])
    \/ \E k \in DOMAIN cfg.Allowlist.Paths : regexMatched(path, cfg.Allowlist.Paths[k])

skipRule(rule, filename, path) ==
    \/ isAllowListed(filename, rule.AllowList.Files)
    \/ isAllowListed(path, rule.AllowList.Paths)
    \/ ruleContainFileRegex(rule) /\ ~regexMatched(filename, rule.File)
    \/ ruleContainPathRegex(rule) /\ ~regexMatched(path, rule.Path)

\* index of the last "/" of a path, 0 when it has none
LastSlash(p) ==
    LET at == {i \in DOMAIN p : p[i] = "/"}
    IN  IF at = {} THEN 0 ELSE CHOOSE i \in at : \A j \in at : j <= i

\* filepath.Base and filepath.Dir on clean paths that do not end in "/"
Base(p) == IF p = <<>> THEN <<".">> ELSE SubSeq(p, LastSlash(p) + 1, Len(p))

Dir(p) ==
    CASE LastSlash(p) = 0 -> <<".">>
      [] LastSlash(p) = 1 -> <<"/">>
      [] OTHER -> SubSeq(p, 1, LastSlash(p) - 1)

\* strings.Split(content, "\n")
RECURSIVE Split(_)
Split(content) ==
    LET at == {i \in DOMAIN content : content[i] = "\n"}
    IN  IF at = {} THEN <<content>>
        ELSE LET i == CHOOSE x \in at : \A y \in at : x <= y
             IN  <<SubSeq(content, 1, i - 1)>> \o Split(SubSeq(content, i + 1, Len(content)))

\* strings.Join(tags, ", "), the pieces kept apart
RECURSIVE Join(_)
Join(tags) ==
    IF Len(tags) <= 1 THEN tags ELSE <<Head(tags), ", ">> \o Join(Tail(tags))

Leak(lineNumber, line, offender, rule, file, repoName, commit) ==
    [LineNumber |-> lineNumber, Line |-> line, Offender |-> offender,
     Commit |-> commit.Hash, Repo |-> repoName, Message |-> commit.Message,
     Rule |-> rule.Description, Author |-> commit.Author.Name,
     Email |-> commit.Author.Email, Date |-> commit.Author.When,
     Tags |-> Join(rule.Tags), File |-> file]

\* skipRuleLookup after the first loop: the descriptions of the skipped rules
skipRuleLookup(cfg, filePath) ==
    {cfg.Rules[id].Description : id \in {x \in DOMAIN cfg.Rules :
                                              skipRule(cfg.Rules[x], Base(filePath), filePath)}}

\* the first loop of checkRules, the range over cfg.Rules yielding the rules
\* in `order`: one Leak per rule that is not skipped and has no content regex
RECURSIVE phaseA(_, _, _, _, _)
phaseA(cfg, repoName, filePath, commit, order) ==
    IF order = <<>> THEN <<>>
    ELSE LET rule == cfg.Rules[Head(order)]
             rest == phaseA(cfg, repoName, filePath, commit, Tail(order))
         IN  IF skipRule(rule, Base(filePath), filePath) THEN rest
             ELSE IF ~ruleContainRegex(rule)
             THEN <<Leak(defaultLineNumber, <<"N/A">>,
                         <<"Filename/path offender: ">> \o Base(filePath),
                         rule, Base(filePath), repoName, commit)>> \o rest
             ELSE rest

\* the inner loop of the second loop of checkRules for one line, the range over
\* cfg.Rules yielding the rules in `order`; lookup is skipRuleLookup
RECURSIVE phaseBLine(_, _, _, _, _, _, _, _)
phaseBLine(cfg, repoName, filePath, commit, lookup, line, lineNumber, order) ==
    IF order = <<>> THEN <<>>
    ELSE LET rule == cfg.Rules[Head(order)]
             rest == phaseBLine(cfg, repoName, filePath, commit, lookup, line, lineNumber,
                                Tail(order))
             found == FindString(rule.Regex, line)
             groups == FindStringSubmatch(rule.Regex, found)
             offender == IF 0 < rule.ReportGroup /\ rule.ReportGroup < Len(groups)
                         THEN groups[rule.ReportGroup + 1] ELSE found
         IN  IF rule.Description \in lookup THEN rest
             ELSE IF found = <<>> THEN rest
             ELSE IF isAllowListed(line, rule.AllowList.Regexes \o cfg.Allowlist.Regexes) THEN rest
             ELSE IF Len(rule.Entropies) # 0 /\ ~trippedEntropy(groups, rule) THEN rest
             ELSE <<Leak(lineNumber, line, offender, rule, filePath, repoName, commit)>> \o rest

\* the []Leak the second loop may append from line number n on: every range
\* over the map cfg.Rules yields the rules in an order of its own
RECURSIVE phaseB(_, _, _, _, _, _, _)
phaseB(cfg, repoName, filePath, commit, lookup, lines, n) ==
    IF n >= Len(lines) THEN {<<>>}
    ELSE LET here == {phaseBLine(cfg, repoName, filePath, commit, lookup, lines[n + 1], n, order) :
                          order \in Perms(DOMAIN cfg.Rules)}
         IN  {h \o t : h \in here,
                       t \in phaseB(cfg, repoName, filePath, commit, lookup, lines, n + 1)}

\* checkRules: the set of []Leak one call may return
checkRules(cfg, repoName, filePath, commit, content) ==
    IF skipCheck(cfg, Base(filePath), Dir(filePath)) THEN {<<>>}
    ELSE {a \o b : a \in {phaseA(cfg, repoName, filePath, commit, order) :
                             order \in Perms(DOMAIN cfg.Rules)},
                   b \in phaseB(cfg, repoName, filePath, commit,
                                skipRuleLookup(cfg, filePath), Split(content), 0)}

\* the rules and configurations the detector is run with
DRule(desc, regex, file, path, entropies, reportGroup, tags, allowRegexes) ==
    [Description |-> desc, Regex |-> regex, File |-> file, Path |-> path,
     Entropies |-> entropies, ReportGroup |-> reportGroup, Tags |-> tags,
     AllowList |-> [Regexes |-> allowRegexes, Files |-> <<>>, Paths |-> <<>>]]

DConfig(rules, allowRegexes, allowFiles, allowPaths) ==
    [Rules |-> rules,
     Allowlist |-> [Regexes |-> allowRegexes, Files |-> allowFiles, Paths |-> allowPaths]]

ReAny2 == <<Cap(<<".">>), Cap(<<".">>)>>       \* (.)(.)
ReAny3 == <<Cap(<<".", ".">>), Lit(<<".">>)>>  \* (..).
ReB == <<Lit(<<"b">>)>>                        \* b
ReA == <<Lit(<<"a">>)>>                        \* a
ReBB == <<Lit(<<"b", "b">>)>>                  \* bb
ReAA == <<Lit(<<"a", "a">>)>>                  \* aa
ReDirA == <<Lit(<<"a", "/">>)>>                \* a/

RuleKey == DRule("key", ReKey, <<>>, <<>>, <<>>, 1, <<"key", "aws">>, <<>>)
RulePair == DRule("pair", ReAny2, <<>>, <<>>,
                  <<[Group |-> 0, Min |-> 1000, Max |-> 1000]>>, 0, <<>>, <<>>)
RulePairAllow == DRule("pair", ReAny2, <<>>, <<>>,
                       <<[Group |-> 3, Min |-> 0, Max |-> 8000],
                         [Group |-> 1, Min |-> 0, Max |-> 0]>>, 2, <<"p">>, <<ReAA>>)
RuleTriple == DRule("triple", ReAny3, <<>>, <<>>,
                    <<[Group |-> 1, Min |-> 500, Max |-> 999],
                      [Group |-> 0, Min |-> 0, Max |-> 0]>>, 5, <<>>, <<>>)
RuleNoGroup == DRule("nogroup", ReB, <<>>, <<>>,
                     <<[Group |-> 2, Min |-> 0, Max |-> 8000]>>, 0, <<>>, <<>>)
RuleFile == DRule("file", <<>>, ReB, <<>>, <<>>, 0, <<"f">>, <<>>)
RulePath == DRule("path", <<>>, <<>>, ReDirA, <<>>, 0, <<>>, <<>>)
RuleKeyInB == DRule("key", ReB, ReB, <<>>, <<>>, 0, <<>>, <<>>)

ConfigNames == {"allow", "two", "files", "entropy", "samedesc", "paths"}

DetConfig(name) ==
    CASE name = "allow" ->
           DConfig([id \in {"r1"} |-> RuleKey], <<ReBB, ReAA>>, <<>>, <<>>)
      [] name = "two" ->
           DConfig([id \in {"r1", "r2"} |-> IF id = "r1" THEN RuleKey ELSE RulePair],
                   <<>>, <<>>, <<>>)
      [] name = "files" ->
           DConfig([id \in {"r1", "r2"} |-> IF id = "r1" THEN RuleFile ELSE RulePath],
                   <<>>, <<>>, <<>>)
      [] name = "entropy" ->
           DConfig([id \in {"r1", "r2"} |-> IF id = "r1" THEN RulePairAllow ELSE RuleNoGroup],
                   <<>>, <<>>, <<>>)
      [] name = "samedesc" ->
           DConfig([id \in {"r1", "r2"} |-> IF id = "r1" THEN RuleKey ELSE RuleKeyInB],
                   <<>>, <<>>, <<>>)
      [] name = "paths" ->
           DConfig([id \in {"r1", "r2"} |-> IF id = "r1" THEN RuleTriple ELSE RuleFile],
                   <<>>, <<ReAA>>, <<ReA>>)

Chars == {"a", "b", "\n"}

Contents == UNION {[1..n -> Chars] : n \in 0..MaxContentLen}

FilePaths == {<<"b">>, <<"a", "/", "b">>, <<"a", "a">>}

\* the commit the content comes from
SomeCommit ==
    [Hash |-> "c0ffee", Message |-> "msg",
     Author |-> [Name |-> "n", Email |-> "e", When |-> 1]]

\* one call of checkRules on the arguments detArgs
CheckRules ==
    /\ Len(detRuns) < MaxRuns
    /\ \E leaks \in checkRules(detArgs.cfg, "repo", detArgs.filePath, SomeCommit, detArgs.content) :
         detRuns' = Append(detRuns, leaks)
    /\ UNCHANGED <<detArgs, cfgVars, usVars, thrVars>>

(***************************************************************************)
(* Working-tree scanner (UnstagedScanner.Scan)                             *)
(***************************************************************************)
\* emptyCommit(), and the HEAD commit once Scan has blanked its details
emptyCommit ==
    [Hash |-> "0000000000000000000000000000000000000000",
     Message |-> "***STAGED CHANGES***",
     Author |-> [Name |-> "", Email |-> "", When |-> 0]]

\* us.cfg
ScanConfig == DConfig([id \in {"r1"} |-> RuleKey], <<>>, <<>>, <<>>)

\* length of the longest common prefix of two strings
RECURSIVE CommonPrefix(_, _)
CommonPrefix(a, b) ==
    IF a = <<>> \/ b = <<>> \/ Head(a) # Head(b) THEN 0
    ELSE 1 + CommonPrefix(Tail(a), Tail(b))

Reverse(a) == [i \in DOMAIN a |-> a[Len(a) + 1 - i]]

\* dmp.DiffCleanupSemantic(dmp.DiffMain(prev, curr, false)): the common prefix
\* and suffix are equalities, what is left of prev a deletion and what is
\* left of curr an insertion (exact when one of the two is empty, as for all
\* the file versions used here)
DiffMain(prev, curr) ==
    LET p == CommonPrefix(prev, curr)
        a == SubSeq(prev, p + 1, Len(prev))
        b == SubSeq(curr, p + 1, Len(curr))
        q == CommonPrefix(Reverse(a), Reverse(b))
        del == SubSeq(a, 1, Len(a) - q)
        ins == SubSeq(b, 1, Len(b) - q)
    IN  (IF p > 0 THEN <<[Type |-> "DiffEqual", Text |-> SubSeq(prev, 1, p)]>> ELSE <<>>)
        \o (IF del # <<>> THEN <<[Type |-> "DiffDelete", Text |-> del]>> ELSE <<>>)
        \o (IF ins # <<>> THEN <<[Type |-> "DiffInsert", Text |-> ins]>> ELSE <<>>)
        \o (IF q > 0 THEN <<[Type |-> "DiffEqual", Text |-> SubSeq(a, Len(a) - q + 1, Len(a))]>>
            ELSE <<>>)

\* diffContents: the inserted spans, each followed by a newline
RECURSIVE InsertedText(_)
InsertedText(diffs) ==
    IF diffs = <<>> THEN <<>>
    ELSE (IF Head(diffs).Type = "DiffInsert" THEN Head(diffs).Text \o <<"\n">> ELSE <<>>)
         \o InsertedText(Tail(diffs))

CleanText == <<"b", "b">>
SecretText == <<"b", "a", "b", "b">>

ScanPaths == {<<"f">>, <<"g">>}

NoPrev == [exists |-> FALSE, readable |-> FALSE, text |-> <<>>]

\* what the repository holds for one path of the working-tree status: its
\* staging state, whether the working-tree file opens and reads ("ok",
\* "openerr", "readerr"), its text on disk and its version at HEAD
FileStates ==
    [staging : {"Untracked"}, io : {"ok", "openerr", "readerr"},
     curr : {CleanText, SecretText}, prev : {NoPrev}]
    \cup
    [staging : {"Modified"}, io : {"ok", "openerr", "readerr"},
     curr : {CleanText, SecretText},
     prev : {NoPrev, [exists |-> TRUE, readable |-> FALSE, text |-> <<>>],
             [exists |-> TRUE, readable |-> TRUE, text |-> CleanText],
             [exists |-> TRUE, readable |-> TRUE, text |-> SecretText]}]
    \cup
    [staging : {"Deleted"}, io : {"openerr"}, curr : {<<>>},
     prev : {[exists |-> TRUE, readable |-> FALSE, text |-> <<>>],
             [exists |-> TRUE, readable |-> TRUE, text |-> CleanText],
             [exists |-> TRUE, readable |-> TRUE, text |-> SecretText]}]

\* the repositories: head is "none" (ErrReferenceNotFound), "ok" or "err";
\* fail names the repository-level call that fails, if any
Repos ==
    {r \in [head : {"none", "ok", "err"}, fail : {"no", "commit", "worktree", "status"},
            files : [ScanPaths -> FileStates]] :
        /\ r.head = "err" => r.fail = "no"
        /\ r.fail = "commit" => r.head = "ok"
        /\ r.head = "none" => \A fn \in ScanPaths : ~r.files[fn].prev.exists}

\* Scan up to the range over the status
ScanStart ==
    /\ usPc = "idle"
    /\ IF repo.head = "err" \/ repo.fail \in {"commit", "worktree"}
          \/ (repo.fail = "status" /\ repo.head = "none")
       THEN /\ usPc' = "done"
            /\ usErr' = "err"
            /\ UNCHANGED usTodo
       ELSE /\ usPc' = IF repo.head = "none" THEN "nohead" ELSE "head"
            \* a failed wt.Status() leaves a nil map to range over
            /\ usTodo' = IF repo.fail = "status" THEN {} ELSE ScanPaths
            /\ UNCHANGED usErr
    /\ UNCHANGED <<repo, usLeaks, cfgVars, detVars, thrVars>>

\* one iteration of the range over the status when there is no HEAD
ScanNoHeadFile(fn) ==
    /\ usPc = "nohead"
    /\ fn \in usTodo
    /\ CASE repo.files[fn].io = "openerr" ->
              /\ usTodo' = usTodo \ {fn}
              /\ UNCHANGED <<usPc, usErr, usLeaks>>
         [] repo.files[fn].io = "readerr" ->
              /\ usPc' = "done"
              /\ usErr' = "err"
              /\ UNCHANGED <<usTodo, usLeaks>>
         [] OTHER ->
              /\ \E leaks \in checkRules(ScanConfig, "", fn, emptyCommit, repo.files[fn].curr) :
                   usLeaks' = usLeaks \o leaks
              /\ usTodo' = usTodo \ {fn}
              /\ UNCHANGED <<usPc, usErr>>
    /\ UNCHANGED <<repo, cfgVars, detVars, thrVars>>

\* one iteration of the range over the status when HEAD exists
ScanHeadFile(fn) ==
    LET f == repo.files[fn]
        filename == IF f.staging # "Deleted" THEN fn
                    ELSE IF f.prev.exists THEN fn ELSE <<>>
        currFileContents == IF f.staging = "Deleted" THEN <<>> ELSE f.curr
        prevFileContents == IF f.prev.exists THEN f.prev.text ELSE <<>>
        diffContents == InsertedText(DiffMain(prevFileContents, currFileContents))
        outcome ==
            IF f.staging = "Untracked" THEN "skip"
            ELSE IF f.staging # "Deleted" /\ f.io = "openerr" THEN "skip"
            ELSE IF f.staging # "Deleted" /\ f.io = "readerr" THEN "abort"
            ELSE IF f.prev.exists /\ ~f.prev.readable THEN "abort"
            ELSE "scan"
    IN  /\ usPc = "head"
        /\ fn \in usTodo
        /\ CASE outcome = "skip" ->
                  /\ usTodo' = usTodo \ {fn}
                  /\ UNCHANGED <<usPc, usErr, usLeaks>>
             [] outcome = "abort" ->
                  /\ usPc' = "done"
                  /\ usErr' = "err"
                  /\ UNCHANGED <<usTodo, usLeaks>>
             [] outcome = "scan" ->
                  /\ \E leaks \in checkRules(ScanConfig, "", filename, emptyCommit, diffContents) :
                       usLeaks' = usLeaks \o leaks
                  /\ usTodo' = usTodo \ {fn}
                  /\ UNCHANGED <<usPc, usErr>>
        /\ UNCHANGED <<repo, cfgVars, detVars, thrVars>>

\* the range is over: Scan returns nil, or the error of wt.Status() it kept
ScanEnd ==
    /\ usPc \in {"nohead", "head"}
    /\ usTodo = {}
    /\ usPc' = "done"
    /\ usErr' = IF repo.fail = "status" THEN "err" ELSE "nil"
    /\ UNCHANGED <<repo, usTodo, usLeaks, cfgVars, detVars, thrVars>>

(***************************************************************************)
(* Worker-pool size (howManyThreads)                                       *)
(***************************************************************************)
howManyThreads(t, maxThreads) ==
    IF t = 0 THEN 1
    ELSE IF t > maxThreads THEN maxThreads
    ELSE t

HowManyThreads ==
    /\ threadsOut = <<>>
    /\ threadsOut' = <<howManyThreads(threads, maxProcs)>>
    /\ UNCHANGED <<threads, maxProcs, cfgVars, detVars, usVars>>

(***************************************************************************)
(* Specifications                                                          *)
(***************************************************************************)
CfgInit ==
    /\ extendDepth = 0
    /\ stack = <<>>
    /\ results = <<>>
    /\ status = "running"

DetIdle ==
    /\ detArgs = <<>>
    /\ detRuns = <<>>

UsIdle ==
    /\ repo = <<>>
    /\ usPc = "idle"
    /\ usTodo = {}
    /\ usLeaks = <<>>
    /\ usErr = "none"

ThrIdle ==
    /\ threads = 0
    /\ maxProcs = 1
    /\ threadsOut = <<>>

\* the configuration resolver of one process
InitConfig == CfgInit /\ DetIdle /\ UsIdle /\ ThrIdle

NextConfig ==
    \/ \E vc \in Documents : Translate(vc)
    \/ extendDefault
    \/ extendPath
    \/ TranslateReturn

SpecConfig == InitConfig /\ [][NextConfig]_vars

\* a Translate call that has started runs on: it is an ordinary sequential call
FairSpecConfig ==
    SpecConfig /\ WF_vars(extendDefault) /\ WF_vars(extendPath) /\ WF_vars(TranslateReturn)

\* the leak detector called repeatedly on one choice of arguments
InitDetect ==
    /\ detArgs \in [cfg : {DetConfig(n) : n \in ConfigNames}, filePath : FilePaths,
                    content : Contents]
    /\ detRuns = <<>>
    /\ CfgInit /\ UsIdle /\ ThrIdle

NextDetect == CheckRules

SpecDetect == InitDetect /\ [][NextDetect]_vars

\* the working-tree scanner run once on a repository
InitScan ==
    /\ repo \in Repos
    /\ usPc = "idle"
    /\ usTodo = {}
    /\ usLeaks = <<>>
    /\ usErr = "none"
    /\ CfgInit /\ DetIdle /\ ThrIdle

NextScan ==
    \/ ScanStart
    \/ \E fn \in ScanPaths : ScanNoHeadFile(fn)
    \/ \E fn \in ScanPaths : ScanHeadFile(fn)
    \/ ScanEnd

SpecScan == InitScan /\ [][NextScan]_vars

\* howManyThreads called once with a requested thread count
InitThreads ==
    /\ threads \in (0 - MaxThreads)..MaxThreads
    /\ maxProcs \in 1..MaxProcs
    /\ threadsOut = <<>>
    /\ CfgInit /\ DetIdle /\ UsIdle

NextThreads == HowManyThreads

SpecThreads == InitThreads /\ [][NextThreads]_vars

(***************************************************************************)
(* Claims about the configuration resolver                                 *)
(***************************************************************************)
\* the rules of the document vc itself, before anything is merged into them
C1_OwnRules(vc) == TranslateRules(vc.Rules, EmptyMap, <<>>).Rules

\* a step in which an extension is merged into its base by extend
C1_MergeStep == Len(stack) >= 2 /\ Top.pc = "return" /\ Len(stack') = Len(stack) - 1

C1_MergeKeepsBase ==
    C1_MergeStep =>
        LET base == stack[Len(stack) - 1].c
            ext == Top.c
            merged == stack'[Len(stack')].c
        IN  /\ \A id \in DOMAIN base.Rules :
                 id \in DOMAIN merged.Rules /\ merged.Rules[id] = base.Rules[id]
            /\ \A id \in (DOMAIN merged.Rules) \ (DOMAIN base.Rules) :
                 id \in DOMAIN ext.Rules /\ merged.Rules[id] = ext.Rules[id]

C1_ResultKeepsOwn ==
    \A i \in DOMAIN results :
        results[i].err = "nil" =>
            \A id \in DOMAIN C1_OwnRules(results[i].vc) :
                /\ id \in DOMAIN results[i].c.Rules
                /\ results[i].c.Rules[id] = C1_OwnRules(results[i].vc)[id]

\* C1: extend is first-writer-wins. Every merge step leaves each rule
\* identifier of the base mapped to the base's rule body and adds only rules
\* of the extension whose identifier the base lacked; and whatever the chain
\* of nested extensions, a resolved Config maps every identifier of its own
\* document to that document's rule.
C1_FirstWriterWins == []C1_ResultKeepsOwn /\ [][C1_MergeKeepsBase]_vars

\* x.toml resolved with y.toml merged in: both define "A" with different
\* bodies, the result holds x's "A" and y's "Y"
C1_Witness ==
    \E i \in DOMAIN results :
        /\ results[i].vc = FileSystem("x.toml")
        /\ results[i].err = "nil"
        /\ "Y" \in DOMAIN results[i].c.Rules
        /\ results[i].c.Rules["A"].Description = "A of x"
        /\ C1_OwnRules(FileSystem("y.toml"))["A"].Description = "A of y"

\* C2: resolving the same raw document twice in one process yields Configs
\* with the same rule sets and the same global allowlists.
C2_Idempotent ==
    \A i, j \in DOMAIN results :
        (results[i].vc = results[j].vc /\ results[i].err = "nil" /\ results[j].err = "nil")
            => /\ results[i].c.Rules = results[j].c.Rules
               /\ results[i].c.Allowlist = results[j].c.Allowlist

\* an activation waiting in extendDefault / extendPath for its nested Translate
C3_Nested == Len(stack) - 1

C3_DepthBounded ==
    /\ extendDepth <= maxExtendDepth
    /\ stack # <<>> => C3_Nested <= maxExtendDepth

\* at the cap no further extension is entered: the counter and the nesting stay
C3_IgnoredAtCap ==
    (extendDepth = maxExtendDepth /\ stack # <<>>) =>
        (extendDepth' = extendDepth /\ Len(stack') <= Len(stack))

\* a resolution under way that is not dead can take its next step
C3_NeverStuck ==
    (stack # <<>> /\ status = "running") =>
        ENABLED (extendDefault \/ extendPath \/ TranslateReturn)

\* C3: resolution of self-extending and cyclic configs terminates. The shared
\* counter never passes maxExtendDepth, no resolution nests more than
\* maxExtendDepth extension resolutions, an Extends met at the cap is ignored,
\* and every resolution that has started returns or ends the process.
C3_DepthCap ==
    /\ []C3_DepthBounded
    /\ []C3_NeverStuck
    /\ [][C3_IgnoredAtCap]_vars
    /\ (stack # <<>>) ~> (stack = <<>> \/ status # "running")

\* self.toml, which extends itself, resolved: two nested resolutions were made
\* (the counter is at the cap) and the call returned
C3_Witness ==
    /\ extendDepth = maxExtendDepth
    /\ stack = <<>>
    /\ \E i \in DOMAIN results :
         results[i].vc = FileSystem("self.toml") /\ results[i].err = "nil"

\* a rule (raw or translated) whose secret group exceeds the capture groups of
\* its content regex
C4_Offending(rule) == rule.Regex # <<>> /\ rule.SecretGroup > NumSubexp(rule.Regex)

C4_HasOffending(vc) == \E k \in DOMAIN vc.Rules : C4_Offending(vc.Rules[k])

\* C4: a document with an offending rule never gets past validation. At top
\* level Translate returns the error next to the empty Config; in an extended
\* config the process ends (log.Fatal), so no activation and no successful
\* result ever rests on such a document, and no resolved Config holds such a
\* rule.
C4_SecretGroupFatal ==
    /\ \A i \in DOMAIN stack : ~C4_HasOffending(stack[i].vc)
    /\ \A i \in DOMAIN results :
         /\ C4_HasOffending(results[i].vc) =>
              (results[i].err = "secretgroup" /\ results[i].c = NoConfig)
         /\ results[i].err = "nil" =>
              \A id \in DOMAIN results[i].c.Rules : ~C4_Offending(results[i].c.Rules[id])

\* bad.toml was refused at top level, then extbad.toml, which extends it, ended
\* the process from inside extendPath
C4_Witness ==
    /\ \E i \in DOMAIN results :
         results[i].vc = FileSystem("bad.toml") /\ results[i].err = "secretgroup"
    /\ status = "fatal"
    /\ stack # <<>>
    /\ Top.vc = FileSystem("extbad.toml")
    /\ C4_HasOffending(FileSystem(Top.c.Extends.Path))

\* the keywords of the rules in the rule map of c, lower-cased
C11_RuleKeywords(c) ==
    UNION {Range(LowerAll(c.Rules[id].Keywords)) : id \in DOMAIN c.Rules}

\* every keyword of the aggregate list of c is in lower case
C11_AllLower(c) == \A k \in DOMAIN c.Keywords : ToLower(c.Keywords[k]) = c.Keywords[k]

\* the rule entries of the document carry pairwise different identifiers
C11_UniqueIDs(vc) ==
    \A j, k \in DOMAIN vc.Rules : vc.Rules[j].ID = vc.Rules[k].ID => j = k

\* C11: in every resolved Config each keyword of the aggregate list is in
\* lower case, and the aggregate list holds exactly the keywords of the rules
\* in the rule map (compared in lower case), whether the rule comes from the
\* document itself or was brought in by extend. Documents that break the
\* uniqueness of rule identifiers are left aside.
C11_KeywordsLowerUnion ==
    \A i \in DOMAIN results :
        (results[i].err = "nil" /\ C11_UniqueIDs(results[i].vc)) =>
            /\ C11_AllLower(results[i].c)
            /\ Range(results[i].c.Keywords) = C11_RuleKeywords(results[i].c)

(***************************************************************************)
(* Claims about the leak detector                                          *)
(***************************************************************************)
DetLines == Split(detArgs.content)

\* the regex matches somewhere in s with a non-empty match
ReMatches(re, s) ==
    Flatten(re) # <<>> /\ \E i \in 1..Len(s) : MatchAt(Flatten(re), s, i)

AnyMatches(res, s) == \E k \in DOMAIN res : ReMatches(res[k], s)

\* the rules of the configuration a content Leak on `line` can stem from
LeakRules(leak, line) ==
    {id \in DOMAIN detArgs.cfg.Rules :
        LET rule == detArgs.cfg.Rules[id]
        IN  /\ rule.Description = leak.Rule
            /\ Join(rule.Tags) = leak.Tags
            /\ ReMatches(rule.Regex, line)}

ContentLeaks(leaks) == {k \in DOMAIN leaks : leaks[k].LineNumber # defaultLineNumber}

\* the configuration with every allowlist regex removed
Stripped(cfg) ==
    [Rules |-> [id \in DOMAIN cfg.Rules |-> [cfg.Rules[id] EXCEPT !.AllowList.Regexes = <<>>]],
     Allowlist |-> [cfg.Allowlist EXCEPT !.Regexes = <<>>]]

\* the numbers of the lines that match no allowlist regex of the configuration
CleanLines(lines) ==
    {n \in 0..(Len(lines) - 1) :
        /\ ~AnyMatches(detArgs.cfg.Allowlist.Regexes, lines[n + 1])
        /\ \A id \in DOMAIN detArgs.cfg.Rules :
             ~AnyMatches(detArgs.cfg.Rules[id].AllowList.Regexes, lines[n + 1])}

\* the Leaks not tied to a line or on one of the lines `clean`
OnLines(leaks, clean) ==
    SelectSeq(leaks, LAMBDA l : l.LineNumber = defaultLineNumber \/ l.LineNumber \in clean)

\* C5: no returned Leak is on a line that matches a global allowlist regex or
\* the allowlist regex of the rule it stems from; and on the lines that match
\* no allowlist regex the call returns what it returns with the allowlist
\* regexes removed.
C5_AllowlistSuppresses ==
    LET lines == DetLines
        clean == CleanLines(lines)
        unfiltered == {OnLines(leaks, clean) :
                          leaks \in checkRules(Stripped(detArgs.cfg), "repo", detArgs.filePath,
                                               SomeCommit, detArgs.content)}
    IN  \A r \in DOMAIN detRuns :
            /\ \A k \in ContentLeaks(detRuns[r]) :
                 LET leak == detRuns[r][k]
                     line == lines[leak.LineNumber + 1]
                 IN  /\ leak.Line = line
                     /\ ~AnyMatches(detArgs.cfg.Allowlist.Regexes, line)
                     /\ \E id \in LeakRules(leak, line) :
                          ~AnyMatches(detArgs.cfg.Rules[id].AllowList.Regexes, line)
            /\ OnLines(detRuns[r], clean) \in unfiltered

\* a call returned a Leak for one line and none for another line that the
\* rule matches too but that a global allowlist regex matches
C5_Witness ==
    \E r \in DOMAIN detRuns :
        /\ detRuns[r] # <<>>
        /\ \E n \in 0..(Len(DetLines) - 1), id \in DOMAIN detArgs.cfg.Rules :
             /\ ReMatches(detArgs.cfg.Rules[id].Regex, DetLines[n + 1])
             /\ detArgs.cfg.Rules[id].Entropies = <<>>
             /\ AnyMatches(detArgs.cfg.Allowlist.Regexes, DetLines[n + 1])
             /\ \A k \in DOMAIN detRuns[r] : detRuns[r][k].LineNumber # n

\* some declared range names an existing capture group with entropy in [Min, Max]
EntropyInRange(rule, line) ==
    LET groups == FindStringSubmatch(rule.Regex, FindString(rule.Regex, line))
    IN  \E k \in DOMAIN rule.Entropies :
            LET e == rule.Entropies[k]
            IN  /\ e.Group <= NumSubexp(rule.Regex)
                /\ e.Min <= shannonEntropy(groups[e.Group + 1])
                /\ shannonEntropy(groups[e.Group + 1]) <= e.Max

\* C6: a Leak for a rule with entropy ranges is returned only if one range
\* names an existing capture group whose entropy lies in [Min, Max]; and a
\* rule without ranges that is not skipped, matches a line and is not
\* allowlisted there always gets its Leak.
C6_EntropyGates ==
    LET lines == DetLines
        skipped == skipRuleLookup(detArgs.cfg, detArgs.filePath)
        scanned == ~skipCheck(detArgs.cfg, Base(detArgs.filePath), Dir(detArgs.filePath))
        \* the line numbers and rules without ranges that are due a Leak
        due == {x \in (0..(Len(lines) - 1)) \X (DOMAIN detArgs.cfg.Rules) :
                   LET rule == detArgs.cfg.Rules[x[2]]
                   IN  /\ scanned
                       /\ rule.Entropies = <<>>
                       /\ rule.Description \notin skipped
                       /\ ReMatches(rule.Regex, lines[x[1] + 1])
                       /\ ~AnyMatches(rule.AllowList.Regexes \o detArgs.cfg.Allowlist.Regexes,
                                      lines[x[1] + 1])}
    IN  \A r \in DOMAIN detRuns :
            /\ \A k \in ContentLeaks(detRuns[r]) :
                 \E id \in LeakRules(detRuns[r][k], lines[detRuns[r][k].LineNumber + 1]) :
                     LET rule == detArgs.cfg.Rules[id]
                     IN  \/ rule.Entropies = <<>>
                         \/ EntropyInRange(rule, lines[detRuns[r][k].LineNumber + 1])
            /\ \A x \in due :
                 \E k \in DOMAIN detRuns[r] :
                     /\ detRuns[r][k].LineNumber = x[1]
                     /\ detRuns[r][k].Rule = detArgs.cfg.Rules[x[2]].Description
                     /\ detRuns[r][k].Tags = Join(detArgs.cfg.Rules[x[2]].Tags)

\* a call on content with a line the rule "pair" matches with entropy outside
\* its range (no Leak of "pair" there) and a line it matches with entropy
\* exactly at the bounds of the range (a Leak)
C6_Witness ==
    \E r \in DOMAIN detRuns :
        /\ detArgs.cfg = DetConfig("two")
        /\ \E n \in 0..(Len(DetLines) - 1) :
             /\ ReMatches(RulePair.Regex, DetLines[n + 1])
             /\ ~EntropyInRange(RulePair, DetLines[n + 1])
             /\ \A k \in DOMAIN detRuns[r] :
                  detRuns[r][k].LineNumber = n => detRuns[r][k].Rule # "pair"
        /\ \E k \in DOMAIN detRuns[r] :
             /\ detRuns[r][k].Rule = "pair"
             /\ shannonEntropy(detRuns[r][k].Offender) = RulePair.Entropies[1].Max
             /\ shannonEntropy(detRuns[r][k].Offender) = RulePair.Entropies[1].Min

\* C7: two calls of checkRules with the same arguments return the same
\* sequence of Leaks.
C7_Deterministic ==
    \A i, j \in DOMAIN detRuns : detRuns[i] = detRuns[j]

\* the line numbers and rules that are due a content Leak going by the skip
\* policy of the rule itself: the file is not skipped, skipRule is false for the
\* rule on this file, its content regex matches the line, no allowlist regex
\* does, and its entropy ranges, if it has any, are met
C12_Due(lines) ==
    {x \in (0..(Len(lines) - 1)) \X (DOMAIN detArgs.cfg.Rules) :
        LET rule == detArgs.cfg.Rules[x[2]]
        IN  /\ ~skipCheck(detArgs.cfg, Base(detArgs.filePath), Dir(detArgs.filePath))
            /\ ruleContainRegex(rule)
            /\ ~skipRule(rule, Base(detArgs.filePath), detArgs.filePath)
            /\ ReMatches(rule.Regex, lines[x[1] + 1])
            /\ ~AnyMatches(rule.AllowList.Regexes \o detArgs.cfg.Allowlist.Regexes,
                           lines[x[1] + 1])
            /\ (rule.Entropies = <<>> \/ EntropyInRange(rule, lines[x[1] + 1]))}

\* C12: a rule with a content regex that its own skip policy does not exclude
\* on this file is matched against every line, whatever other rules of the
\* configuration are skipped, those with the same description included: each
\* line it matches outside the allowlists and within its entropy ranges has a
\* Leak of that rule in what the call returns.
C12_SkipIsolated ==
    LET lines == DetLines
        due == C12_Due(lines)
    IN  \A r \in DOMAIN detRuns :
            \A x \in due :
                \E k \in DOMAIN detRuns[r] :
                    /\ detRuns[r][k].LineNumber = x[1]
                    /\ detRuns[r][k].Rule = detArgs.cfg.Rules[x[2]].Description
                    /\ detRuns[r][k].Tags = Join(detArgs.cfg.Rules[x[2]].Tags)

(***************************************************************************)
(* Claims about the working-tree scanner                                   *)
(***************************************************************************)
\* the Leaks of the sequences in `outcomes` all appear in us.leaks
Collected(outcomes) == \A leaks \in outcomes : Range(leaks) \subseteq Range(usLeaks)

\* the Leaks of the whole working-tree text of a path
FullScan(fn) == checkRules(ScanConfig, "", fn, emptyCommit, repo.files[fn].curr)

\* the Leaks of the spans inserted between the HEAD and the working-tree
\* version of a path, either of them empty when it is missing
DiffScan(fn) ==
    LET f == repo.files[fn]
        prev == IF f.prev.exists THEN f.prev.text ELSE <<>>
        curr == IF f.staging = "Deleted" THEN <<>> ELSE f.curr
    IN  checkRules(ScanConfig, "", fn, emptyCommit, InsertedText(DiffMain(prev, curr)))

\* the path has nothing that fails to open or to read
Readable(fn) ==
    LET f == repo.files[fn]
    IN  /\ f.staging # "Deleted" => f.io = "ok"
        /\ (repo.head = "ok" /\ f.staging # "Untracked" /\ f.prev.exists) => f.prev.readable

\* C8: when HEAD, worktree and status can be read, a file that fails to open
\* or to read is only skipped: Scan returns nil and holds the Leaks of every
\* other changed file (without HEAD: of its whole text; with HEAD: of the
\* inserted spans of every path that is not untracked).
C8_FailureIsolated ==
    (usPc = "done" /\ repo.head \in {"none", "ok"} /\ repo.fail = "no") =>
        /\ usErr = "nil"
        /\ \A fn \in ScanPaths :
             Readable(fn) =>
                 CASE repo.head = "none" -> Collected(FullScan(fn))
                   [] repo.files[fn].staging # "Untracked" -> Collected(DiffScan(fn))
                   [] OTHER -> TRUE

\* C9: when HEAD exists and Scan returns nil, every untracked path that can
\* be read was scanned in full and every other changed path that can be read
\* was scanned through its inserted spans.
C9_AllChangedScanned ==
    (usPc = "done" /\ usErr = "nil" /\ repo.head = "ok" /\ repo.fail = "no") =>
        \A fn \in ScanPaths :
            Readable(fn) =>
                IF repo.files[fn].staging = "Untracked"
                THEN Collected(FullScan(fn))
                ELSE Collected(DiffScan(fn))

(***************************************************************************)
(* Claims about the worker-pool size                                       *)
(***************************************************************************)
Min(a, b) == IF a <= b THEN a ELSE b

\* C10: howManyThreads(t) is 1 when t is 0 and min(t, m) otherwise, and lies
\* in 1..m for every integer t.
C10_ThreadsInRange ==
    threadsOut # <<>> =>
        /\ threads = 0 => threadsOut[1] = 1
        /\ threads # 0 => threadsOut[1] = Min(threads, maxProcs)
        /\ threadsOut[1] \in 1..maxProcs

====
